---------------------------- MODULE Spec2Model ----------------------------
(***************************************************************************)
(* Model of the heic-ocr batch pipeline: rotation selection (main.py),     *)
(* image normalisation (heic_utils.py), field extraction (extract.py) and  *)
(* CSV field-name inference (io_utils.py).                                 *)
(*                                                                         *)
(* Text is modelled as a sequence of one-character strings, so that        *)
(* lower-casing, stripping, truncation and pattern matching are computed   *)
(* character by character.  Confidences are integers in tenths             *)
(* (0.9 is 9, the sentinel -1.0 is -10).  The image filters of              *)
(* preprocess.py and the optional saving of preprocessed images change no  *)
(* state modelled here; an image is what OCR reads on it at each rotation. *)
(***************************************************************************)
EXTENDS Integers, Sequences, FiniteSets, TLC

VARIABLES
    \* choose_best_ocr_result (main.py 21-55)
    sel_pc, rotation_mode, rot_i, attempts,
    best_text, best_confidence, best_rotation,
    \* parse_fields (extract.py 125-140)
    ex_pc, ex_input, ex_oracle, ex_result,
    \* write_csv_records (io_utils.py 19-48)
    csv_pc, csv_records, csv_file,
    \* run_pipeline (main.py 58-110) and prepare_images (heic_utils.py 28-64)
    pc, run, input_files, engine_type, engine_ok, write_csv, write_json,
    converted, ocr_raw, csv_out, json_out,
    prep_i, ready, proc_i, extracted_records,
    \* history of the run: which input file each entry of ready came from, the
    \* conversions and copies called, the failures printed, the lists returned
    ready_src, convert_log, copy_log, fail_log, ready_hist

selVars == <<sel_pc, rotation_mode, rot_i, attempts,
             best_text, best_confidence, best_rotation>>

exVars == <<ex_pc, ex_input, ex_oracle, ex_result>>

csvVars == <<csv_pc, csv_records, csv_file>>

pipeVars == <<pc, run, input_files, engine_type, engine_ok, write_csv, write_json,
              converted, ocr_raw, csv_out, json_out,
              prep_i, ready, proc_i, extracted_records,
              ready_src, convert_log, copy_log, fail_log, ready_hist>>

vars == <<selVars, exVars, csvVars, pipeVars>>

-----------------------------------------------------------------------------
(* Sequence helpers *)

Range(s) == {s[i] : i \in 1..Len(s)}

-----------------------------------------------------------------------------
(* Rotation selector: main.py choose_best_ocr_result *)

\* best_confidence's initial value and the engines' "no confidence" value
NoConfidence == -10

\* What an engine may report for one attempt
Confidences == {NoConfidence, 0, 1, 2, 5, 9}

T_empty == <<>>
T_ge    == <<"g", "e">>
T_bosch == <<"b", "o", "s", "c", "h">>
OcrTexts == {T_empty, T_ge, T_bosch}

\* main.py 35-38
RotationCandidates(mode) ==
    IF mode = "auto" THEN <<0, 90, 180, 270>> ELSE <<0>>

\* main.py 30-32
InitialBest == [text |-> T_empty, conf |-> NoConfidence, rot |-> 0]

KeepBetterOrEqual(best, att) ==
    IF att.conf >= best.conf
    THEN [text |-> att.text, conf |-> att.conf, rot |-> att.rot]
    ELSE best

\* main.py 50-53
KeepBetter(best, att) ==
    IF att.conf > best.conf
    THEN [text |-> att.text, conf |-> att.conf, rot |-> att.rot]
    ELSE best

RECURSIVE FoldAttempts(_, _)
\* main.py 42-55: the loop over the attempts of one image, from `best`
FoldAttempts(best, atts) ==
    IF atts = <<>> THEN best
    ELSE FoldAttempts(KeepBetter(best, Head(atts)), Tail(atts))

Best == [text |-> best_text, conf |-> best_confidence, rot |-> best_rotation]

SelInit ==
    /\ sel_pc = "loop"
    /\ rotation_mode \in {"auto", "none"}
    /\ rot_i = 1
    /\ attempts = <<>>
    /\ best_text = InitialBest.text
    /\ best_confidence = InitialBest.conf
    /\ best_rotation = InitialBest.rot

\* main.py 42-53: one rotation attempt; the engine's result is an input
SelTryRotation ==
    /\ sel_pc = "loop"
    /\ rot_i <= Len(RotationCandidates(rotation_mode))
    /\ \E text \in OcrTexts, conf \in Confidences :
         LET att == [rot |-> RotationCandidates(rotation_mode)[rot_i],
                     text |-> text, conf |-> conf]
             nb  == KeepBetter(Best, att)
         IN /\ attempts' = Append(attempts, att)
            /\ best_text' = nb.text
            /\ best_confidence' = nb.conf
            /\ best_rotation' = nb.rot
    /\ rot_i' = rot_i + 1
    /\ UNCHANGED <<sel_pc, rotation_mode>>
    /\ UNCHANGED <<exVars, csvVars, pipeVars>>

\* main.py 41, 43, 49: read_image_bgr, preprocess_for_ocr or engine.run raises
SelRaise ==
    /\ sel_pc = "loop"
    /\ rot_i <= Len(RotationCandidates(rotation_mode))
    /\ sel_pc' = "raised"
    /\ UNCHANGED <<rotation_mode, rot_i, attempts,
                   best_text, best_confidence, best_rotation>>
    /\ UNCHANGED <<exVars, csvVars, pipeVars>>

\* main.py 55
SelReturn ==
    /\ sel_pc = "loop"
    /\ rot_i > Len(RotationCandidates(rotation_mode))
    /\ sel_pc' = "returned"
    /\ UNCHANGED <<rotation_mode, rot_i, attempts,
                   best_text, best_confidence, best_rotation>>
    /\ UNCHANGED <<exVars, csvVars, pipeVars>>

SelIdle ==
    /\ sel_pc = "idle"
    /\ rotation_mode = "auto"
    /\ rot_i = 1
    /\ attempts = <<>>
    /\ best_text = InitialBest.text
    /\ best_confidence = InitialBest.conf
    /\ best_rotation = InitialBest.rot

SelNext == SelTryRotation \/ SelRaise \/ SelReturn

-----------------------------------------------------------------------------
(* Characters and strings (Python str methods used by extract.py) *)

UpperLetters ==
    <<"A", "B", "C", "D", "E", "F", "G", "H", "I", "J", "K", "L", "M",
      "N", "O", "P", "Q", "R", "S", "T", "U", "V", "W", "X", "Y", "Z">>
LowerLetters ==
    <<"a", "b", "c", "d", "e", "f", "g", "h", "i", "j", "k", "l", "m",
      "n", "o", "p", "q", "r", "s", "t", "u", "v", "w", "x", "y", "z">>
Digits == <<"0", "1", "2", "3", "4", "5", "6", "7", "8", "9">>

IndexIn(c, s) == IF \E i \in 1..Len(s) : s[i] = c
                 THEN CHOOSE i \in 1..Len(s) : s[i] = c
                 ELSE 0

\* str.lower / str.upper on one character
LowerChar(c) ==
    IF IndexIn(c, UpperLetters) > 0 THEN LowerLetters[IndexIn(c, UpperLetters)] ELSE c
UpperChar(c) ==
    IF IndexIn(c, LowerLetters) > 0 THEN UpperLetters[IndexIn(c, LowerLetters)] ELSE c

Lower(s) == [i \in 1..Len(s) |-> LowerChar(s[i])]
Upper(s) == [i \in 1..Len(s) |-> UpperChar(s[i])]

\* Python's whitespace, as far as the alphabet of the model goes
Whitespace == {" ", "\t", "\n", "\r", "\f"}
IsSpace(c) == c \in Whitespace
\* \w of the re module
IsWord(c) == c \in Range(UpperLetters) \cup Range(LowerLetters) \cup Range(Digits) \cup {"_"}

\* s[a..b], empty when a > b
Slice(s, a, b) == IF a > b THEN <<>> ELSE SubSeq(s, a, b)

\* number of leading / trailing characters of s that are in cs
RECURSIVE LeadRun(_, _, _)
LeadRun(s, cs, i) ==
    IF i <= Len(s) /\ s[i] \in cs THEN 1 + LeadRun(s, cs, i + 1) ELSE 0
RECURSIVE TrailRun(_, _, _)
TrailRun(s, cs, i) ==
    IF i >= 1 /\ s[i] \in cs THEN 1 + TrailRun(s, cs, i - 1) ELSE 0

\* str.strip(chars)
StripChars(s, cs) ==
    LET a == LeadRun(s, cs, 1)
    IN IF a = Len(s) THEN <<>>
       ELSE Slice(s, a + 1, Len(s) - TrailRun(s, cs, Len(s)))

\* str.strip()
Strip(s) == StripChars(s, Whitespace)

\* `sub in s`
StartsAt(s, sub, p) ==
    /\ p + Len(sub) - 1 <= Len(s)
    /\ \A k \in 1..Len(sub) : s[p + k - 1] = sub[k]
Contains(s, sub) == \E p \in 1..(Len(s) + 1) : StartsAt(s, sub, p)

\* str.startswith
StartsWith(s, pre) == StartsAt(s, pre, 1)

\* str.split(): the maximal runs of non-whitespace characters
RECURSIVE SplitFrom(_, _)
SplitFrom(s, i) ==
    IF i > Len(s) THEN <<>>
    ELSE IF IsSpace(s[i]) THEN SplitFrom(s, i + 1)
    ELSE LET n == CHOOSE n \in 1..(Len(s) - i + 1) :
                    /\ \A k \in 0..(n - 1) : ~IsSpace(s[i + k])
                    /\ (i + n > Len(s) \/ IsSpace(s[i + n]))
         IN <<Slice(s, i, i + n - 1)>> \o SplitFrom(s, i + n)
Split(s) == SplitFrom(s, 1)

\* str.capitalize()
Capitalize(s) ==
    [i \in 1..Len(s) |-> IF i = 1 THEN UpperChar(s[i]) ELSE LowerChar(s[i])]

\* sep.join(parts)
RECURSIVE Join(_, _)
Join(sep, parts) ==
    IF parts = <<>> THEN <<>>
    ELSE IF Len(parts) = 1 THEN parts[1]
    ELSE parts[1] \o sep \o Join(sep, Tail(parts))

\* Optional[str]: None is the empty tuple, a string v is <<v>>
None == <<>>
Some(v) == <<v>>

-----------------------------------------------------------------------------
(* The part of Python's re module that extract.py uses.  A pattern is a    *)
(* tree; matching yields the match states in backtracking priority order,  *)
(* so the head of the list is the match re.search reports.  All matching   *)
(* is case-insensitive (flags=re.IGNORECASE).                              *)

Lit(s) == [t |-> "lit", s |-> s]
\* a character class repeated min..max times (greedy), or min.. when inf
Rep(cs, min, max) == [t |-> "rep", cs |-> cs, min |-> min, max |-> max, inf |-> FALSE]
AtLeast(cs, min) == [t |-> "rep", cs |-> cs, min |-> min, max |-> 0, inf |-> TRUE]
Opt(r) == [t |-> "opt", r |-> r]
Alt(rs) == [t |-> "alt", rs |-> rs]
Cat(rs) == [t |-> "cat", rs |-> rs]
Grp(n, r) == [t |-> "grp", n |-> n, r |-> r]
WordB == [t |-> "wb"]

NoGroup == <<0, 0>>
NoCaps == <<NoGroup, NoGroup>>

\* \b between text[p-1] and text[p]
AtWordBoundary(text, p) ==
    LET before == p > 1 /\ p - 1 <= Len(text) /\ IsWord(text[p - 1])
        after  == p >= 1 /\ p <= Len(text) /\ IsWord(text[p])
    IN before # after

LitAt(text, s, p) ==
    /\ p + Len(s) - 1 <= Len(text)
    /\ \A k \in 1..Len(s) : LowerChar(text[p + k - 1]) = s[k]

RECURSIVE MatchNode(_, _, _)
RECURSIVE MatchAll(_, _, _)
RECURSIVE MatchCat(_, _, _)
RECURSIVE MatchAlt(_, _, _)

\* every state of `states` continued through `node`, in order
MatchAll(node, text, states) ==
    IF states = <<>> THEN <<>>
    ELSE MatchNode(node, text, Head(states)) \o MatchAll(node, text, Tail(states))

MatchCat(nodes, text, states) ==
    IF nodes = <<>> THEN states
    ELSE MatchCat(Tail(nodes), text, MatchAll(Head(nodes), text, states))

MatchAlt(nodes, text, st) ==
    IF nodes = <<>> THEN <<>>
    ELSE MatchNode(Head(nodes), text, st) \o MatchAlt(Tail(nodes), text, st)

MatchNode(node, text, st) ==
    CASE node.t = "lit" ->
           IF LitAt(text, node.s, st.pos)
           THEN <<[pos |-> st.pos + Len(node.s), caps |-> st.caps]>>
           ELSE <<>>
      [] node.t = "rep" ->
           LET avail == LeadRun(text, node.cs, st.pos)
               n     == IF node.inf \/ avail <= node.max THEN avail ELSE node.max
           IN IF n < node.min THEN <<>>
              ELSE [k \in 1..(n - node.min + 1) |->
                       [pos |-> st.pos + n - k + 1, caps |-> st.caps]]
      [] node.t = "opt" -> MatchNode(node.r, text, st) \o <<st>>
      [] node.t = "alt" -> MatchAlt(node.rs, text, st)
      [] node.t = "cat" -> MatchCat(node.rs, text, <<st>>)
      [] node.t = "grp" ->
           LET inner == MatchNode(node.r, text, st)
           IN [k \in 1..Len(inner) |->
                 [pos |-> inner[k].pos,
                  caps |-> [inner[k].caps EXCEPT ![node.n] = <<st.pos, inner[k].pos>>]]]
      [] node.t = "wb" ->
           IF AtWordBoundary(text, st.pos) THEN <<st>> ELSE <<>>

\* re.search from position p on: None, or <<[start, end, caps]>>
RECURSIVE SearchFrom(_, _, _)
SearchFrom(pat, text, p) ==
    IF p > Len(text) + 1 THEN None
    ELSE LET ms == MatchNode(pat, text, [pos |-> p, caps |-> NoCaps])
         IN IF ms # <<>>
            THEN Some([start |-> p, end |-> ms[1].pos, caps |-> ms[1].caps])
            ELSE SearchFrom(pat, text, p + 1)
Search(pat, text) == SearchFrom(pat, text, 1)

\* m.lastindex or 0
LastIndex(m) == IF m.caps[2] # NoGroup THEN 2 ELSE IF m.caps[1] # NoGroup THEN 1 ELSE 0

\* m.group(n): None (as <<>>) for a group that took no part
Group(m, text, n) ==
    IF n = 0 THEN Some(Slice(text, m.start, m.end - 1))
    ELSE IF m.caps[n] = NoGroup THEN None
    ELSE Some(Slice(text, m.caps[n][1], m.caps[n][2] - 1))

\* re.findall for a pattern with one group: the group of each match, left to right
RECURSIVE FindAllFrom(_, _, _)
FindAllFrom(pat, text, p) ==
    LET m == SearchFrom(pat, text, p)
    IN IF m = None THEN <<>>
       ELSE <<Group(m[1], text, 1)[1]>> \o
            FindAllFrom(pat, text, IF m[1].end > m[1].start THEN m[1].end ELSE m[1].end + 1)
FindAll(pat, text) == FindAllFrom(pat, text, 1)

-----------------------------------------------------------------------------
(* Field extractor: extract.py *)

\* extract.py 10-27
MANUFACTURER_KEYWORDS ==
    <<
      <<"r", "h", "e", "e", "m">>,
      <<"r", "u", "u", "d">>,
      <<"a", "o", " ", "s", "m", "i", "t", "h">>,
      <<"a", ".", " ", "o", ".", " ", "s", "m", "i", "t", "h">>,
      <<"b", "r", "a", "d", "f", "o", "r", "d", " ", "w", "h", "i", "t",
        "e">>,
      <<"s", "t", "a", "t", "e", " ", "w", "a", "t", "e", "r", " ", "h",
        "e", "a", "t", "e", "r", "s">>,
      <<"s", "t", "a", "t", "e", " ", "i", "n", "d", "u", "s", "t", "r",
        "i", "e", "s">>,
      <<"g", "e">>,
      <<"g", "e", "n", "e", "r", "a", "l", " ", "e", "l", "e", "c", "t",
        "r", "i", "c">>,
      <<"w", "h", "i", "r", "l", "p", "o", "o", "l">>,
      <<"k", "e", "n", "m", "o", "r", "e">>,
      <<"a", "m", "e", "r", "i", "c", "a", "n", " ", "w", "a", "t", "e",
        "r", " ", "h", "e", "a", "t", "e", "r">>,
      <<"n", "a", "v", "i", "e", "n">>,
      <<"n", "o", "r", "i", "t", "z">>,
      <<"r", "i", "n", "n", "a", "i">>,
      <<"b", "o", "s", "c", "h">> >>

WordChars == Range(UpperLetters) \cup Range(LowerLetters) \cup Range(Digits) \cup {"_"}
DigitChars == Range(Digits)
\* \s*
Spaces == AtLeast(Whitespace, 0)
\* (no\.?|number|#)?
NumberWord ==
    Opt(Grp(1, Alt(<<Cat(<<Lit(<<"n", "o">>), Rep({"."}, 0, 1)>>),
                     Lit(<<"n", "u", "m", "b", "e", "r">>),
                     Lit(<<"#">>)>>)))
\* \s*[:]?\s*
ColonGap == Cat(<<Spaces, Rep({":"}, 0, 1), Spaces>>)
\* ([\w\-/\.]+) and ([\w\-/]+)
ModelToken == Grp(2, AtLeast(WordChars \cup {"-", "/", "."}, 1))
SerialToken == Grp(2, AtLeast(WordChars \cup {"-", "/"}, 1))

\* extract.py 30-34
MODEL_HINTS ==
    << Cat(<<Lit(<<"m", "o", "d", "e", "l">>), Spaces, NumberWord, ColonGap, ModelToken>>),
       Cat(<<Lit(<<"m">>), Rep({"/"}, 0, 1), Lit(<<"n">>), Rep({"."}, 0, 1),
             ColonGap, ModelToken>>),
       Cat(<<Lit(<<"m", "d", "l">>), Rep({"."}, 0, 1), ColonGap, ModelToken>>) >>

\* extract.py 37-40
SERIAL_HINTS ==
    << Cat(<<Lit(<<"s", "e", "r", "i", "a", "l">>), Spaces, NumberWord, ColonGap, SerialToken>>),
       Cat(<<Lit(<<"s">>), Rep({"/"}, 0, 1), Lit(<<"n">>), Rep({"."}, 0, 1),
             ColonGap, SerialToken>>) >>

\* extract.py 43-46
CAPACITY_HINTS ==
    << Cat(<<Grp(1, Rep(DigitChars, 2, 3)), Spaces,
             Grp(2, Alt(<<Lit(<<"g", "a", "l">>), Lit(<<"g", "a", "l", "l", "o", "n">>),
                          Lit(<<"g", "a", "l", "l", "o", "n", "s">>)>>)),
             WordB>>),
       Cat(<<Grp(1, Rep(DigitChars, 2, 3)), Spaces,
             Grp(2, Alt(<<Lit(<<"l">>), Lit(<<"l", "i", "t", "r", "e">>),
                          Lit(<<"l", "i", "t", "r", "e", "s">>),
                          Lit(<<"l", "i", "t", "e", "r">>),
                          Lit(<<"l", "i", "t", "e", "r", "s">>)>>)),
             WordB>>) >>

\* extract.py 49-51
DATE_HINTS ==
    << Cat(<<Grp(1, Alt(<<Lit(<<"m", "a", "n", "u", "f", "a", "c", "t", "u", "r", "e", "d">>),
                          Cat(<<Lit(<<"m", "f", "g">>), Rep({"."}, 0, 1), Spaces,
                                Lit(<<"d", "a", "t", "e">>)>>),
                          Cat(<<Lit(<<"d", "a", "t", "e">>), Spaces, Lit(<<"o", "f">>), Spaces,
                                Lit(<<"m", "a", "n", "u", "f", "a", "c", "t", "u", "r", "e">>)>>),
                          Lit(<<"d", "o", "m">>)>>)),
             Spaces, Rep({":", "-"}, 0, 1), Spaces,
             Grp(2, AtLeast(WordChars \cup {"-", "/", ",", ".", " "}, 6))>>) >>

\* extract.py 101: \b(\d{1,2}[\-/]\d{1,2}[\-/]\d{2,4})\b
DATE_DMY ==
    Cat(<<WordB, Grp(1, Cat(<<Rep(DigitChars, 1, 2), Rep({"-", "/"}, 1, 1),
                              Rep(DigitChars, 1, 2), Rep({"-", "/"}, 1, 1),
                              Rep(DigitChars, 2, 4)>>)), WordB>>)
\* extract.py 102: \b(\d{4}[\-/]\d{1,2}[\-/]\d{1,2})\b
DATE_YMD ==
    Cat(<<WordB, Grp(1, Cat(<<Rep(DigitChars, 4, 4), Rep({"-", "/"}, 1, 1),
                              Rep(DigitChars, 1, 2), Rep({"-", "/"}, 1, 1),
                              Rep(DigitChars, 1, 2)>>)), WordB>>)

\* extract.py 54-55: each run of [\t\x0b\x0c\r] becomes one space
NormalizedRunChars == {"\t", "\f", "\r"}
RECURSIVE NormalizeFrom(_, _)
NormalizeFrom(text, i) ==
    IF i > Len(text) THEN <<>>
    ELSE IF text[i] \in NormalizedRunChars
         THEN <<" ">> \o NormalizeFrom(text, i + LeadRun(text, NormalizedRunChars, i))
         ELSE <<text[i]>> \o NormalizeFrom(text, i + 1)
normalize_whitespace(text) == NormalizeFrom(text, 1)

\* extract.py 58-69, group_index = -1
RECURSIVE find_first_group(_, _)
find_first_group(patterns, text) ==
    IF patterns = <<>> THEN None
    ELSE LET m == Search(Head(patterns), text)
         IN IF m # None
            THEN LET g == Group(m[1], text, LastIndex(m[1]))
                 IN IF g = None
                    THEN find_first_group(Tail(patterns), text)   \* .strip() of None raises
                    ELSE Some(Strip(g[1]))
            ELSE find_first_group(Tail(patterns), text)

TitleCase(brand) == Join(<<" ">>, [i \in 1..Len(Split(brand)) |-> Capitalize(Split(brand)[i])])

RECURSIVE DetectFrom(_, _)
DetectFrom(lowered, brands) ==
    IF brands = <<>> THEN None
    ELSE IF Contains(lowered, Head(brands)) THEN Some(TitleCase(Head(brands)))
    ELSE DetectFrom(lowered, Tail(brands))

\* extract.py 72-78
detect_manufacturer(text) == DetectFrom(Lower(text), MANUFACTURER_KEYWORDS)

\* extract.py 81-91
RECURSIVE CapacityFrom(_, _)
CapacityFrom(pats, text) ==
    IF pats = <<>> THEN None
    ELSE LET m == Search(Head(pats), text)
         IN IF m = None THEN CapacityFrom(Tail(pats), text)
            ELSE LET number == Group(m[1], text, 1)[1]
                     unit   == Lower(Group(m[1], text, 2)[1])
                 IN IF StartsWith(unit, <<"g", "a", "l">>)
                    THEN Some(number \o <<" ", "g", "a", "l">>)
                    ELSE IF StartsWith(unit, <<"l">>)
                    THEN Some(number \o <<" ", "L">>)
                    ELSE CapacityFrom(Tail(pats), text)
parse_capacity(text) == CapacityFrom(CAPACITY_HINTS, text)

\* date.isoformat(): YYYY-MM-DD
Digit(n) == Digits[n + 1]
IsoFormat(d) ==
    << Digit(d.y \div 1000), Digit((d.y \div 100) % 10), Digit((d.y \div 10) % 10),
       Digit(d.y % 10), "-", Digit(d.m \div 10), Digit(d.m % 10), "-",
       Digit(d.d \div 10), Digit(d.d % 10) >>

\* extract.py 96-102
DateCandidates(text) ==
    LET label_capture == find_first_group(DATE_HINTS, text)
    IN (IF label_capture # None /\ label_capture[1] # <<>> THEN <<label_capture[1]>> ELSE <<>>)
       \o FindAll(DATE_DMY, text) \o FindAll(DATE_YMD, text)

\* extract.py 104-111.  dateutil's parser is outside the repository: `oracle`
\* lists what its successive calls do: None when the call raises, else the date.
RECURSIVE FirstParsed(_, _, _)
FirstParsed(oracle, n, k) ==
    IF k > n THEN None
    ELSE IF k <= Len(oracle) /\ oracle[k] # None THEN Some(IsoFormat(oracle[k][1]))
    ELSE FirstParsed(oracle, n, k + 1)
parse_date_of_manufacture(text, oracle) ==
    FirstParsed(oracle, Len(DateCandidates(text)), 1)

\* extract.py 120: the longest value post_clean returns
MaxFieldLen == 120

PostCleanNoTruncate(value) ==
    IF value = None \/ value[1] = <<>> THEN <<>>
    ELSE StripChars(Strip(value[1]), {"-", ":", ";", ",", ".", "#", " "})

\* extract.py 114-122
post_clean(value) ==
    IF value = None \/ value[1] = <<>> THEN <<>>
    ELSE LET cleaned == StripChars(Strip(value[1]), {"-", ":", ";", ",", ".", "#", " "})
         IN IF Len(cleaned) > MaxFieldLen THEN SubSeq(cleaned, 1, MaxFieldLen) ELSE cleaned

\* extract.py 125-140; ocr_text is Optional (`ocr_text or ""`)
parse_fields(ocr_text, oracle) ==
    LET text == normalize_whitespace(IF ocr_text = None THEN <<>> ELSE ocr_text[1])
    IN [manufacturer        |-> post_clean(detect_manufacturer(text)),
        model_number        |-> post_clean(find_first_group(MODEL_HINTS, text)),
        serial_number       |-> post_clean(find_first_group(SERIAL_HINTS, text)),
        capacity            |-> post_clean(parse_capacity(text)),
        date_of_manufacture |-> post_clean(parse_date_of_manufacture(text, oracle))]

-----------------------------------------------------------------------------
(* Inputs of parse_fields *)

\* how far around MaxFieldLen the long tokens reach
TokenSlack == 2

Fill(c, n) == [i \in 1..n |-> c]

\* a keyword as OCR may spell it: lower case, upper case, capitalised
CaseVariants(kw) == {kw, Upper(kw), Capitalize(kw)}

NoisePrefixes == {<<>>, <<"S", "/", "N", " ", "1", "2", " ">>}
NoiseSuffixes == {<<>>, <<"\n", "5", "0", " ", "G", "a", "l", "l", "o", "n", "s">>}

KeywordTexts ==
    {pre \o v \o suf :
        pre \in NoisePrefixes, suf \in NoiseSuffixes,
        v \in UNION {CaseVariants(MANUFACTURER_KEYWORDS[i]) :
                        i \in 1..Len(MANUFACTURER_KEYWORDS)}}

\* a label followed by a token about MaxFieldLen characters long
LongTokenTexts ==
    {label \o Fill("A", k) \o tail :
        label \in {<<"M", "o", "d", "e", "l", ":", " ">>, <<"S", "e", "r", "i", "a", "l", " ", "N", "o", ":", " ", "-">>},
        tail \in {<<"-", "Z", "Z">>, <<"Z", "-">>, <<>>},
        k \in (MaxFieldLen - TokenSlack)..(MaxFieldLen + TokenSlack)}

PlainTexts ==
    { <<>>,
      <<" ", "\n", "\t", " ">>,
      <<"M", "o", "d", "e", "l", " ", "N", "o", ":", " ", "A", "B", "C", "-", "1", "2", "3">>,
      <<"m", "o", "d", "e", "l", ":", " ", "-", ".", "-">>,
      <<"M", "/", "N", " ", ".", "X", "-", "9", ".">>,
      <<"S", "e", "r", "i", "a", "l", " ", "#", ":", " ", "-", "-", "X", "9", "-", "-">>,
      <<"5", "0", " ", "G", "a", "l", "l", "o", "n", "s">>,
      <<"1", "8", "9", " ", "L">>,
      <<"D", "O", "M", ":", " ", "0", "3", "/", "1", "4", "/", "2", "0", "1", "9">>,
      <<"m", "f", "g", " ", "d", "a", "t", "e", " ", "2", "0", "1", "9", "-", "0", "3", "-", "1", "4", " ", "s", "/", "n", " ", "7">>,
      <<"d", "o", "m", ":", " ", " ", " ", " ", " ", " ", " ">>,
      <<"n", "o", " ", "l", "a", "b", "e", "l", " ", "h", "e", "r", "e">> }

ExtractInputs == {None} \cup {Some(t) : t \in KeywordTexts \cup LongTokenTexts \cup PlainTexts}

Date1 == [y |-> 2019, m |-> 3, d |-> 14]
DateOracles == {<<>>, <<Some(Date1)>>, <<None, Some(Date1)>>}

ExInit ==
    /\ ex_pc = "call"
    /\ ex_input \in ExtractInputs
    /\ ex_oracle \in DateOracles
    /\ ex_result = None

ExIdle ==
    /\ ex_pc = "idle"
    /\ ex_input = None
    /\ ex_oracle = <<>>
    /\ ex_result = None

\* extract.py 125-140
ExParseFields ==
    /\ ex_pc = "call"
    /\ ex_result' = Some(parse_fields(ex_input, ex_oracle))
    /\ ex_pc' = "returned"
    /\ UNCHANGED <<ex_input, ex_oracle>>
    /\ UNCHANGED <<selVars, csvVars, pipeVars>>

ExNext == ExParseFields

-----------------------------------------------------------------------------
(* Record writer: io_utils.py.  A dict is the sequence of its (key, value)  *)
(* pairs in insertion order.                                                *)

DictKeys(rec) == [i \in 1..Len(rec) |-> rec[i][1]]
HasKey(rec, key) == \E i \in 1..Len(rec) : rec[i][1] = key
\* rec.get(key, "")
DictGet(rec, key) ==
    IF HasKey(rec, key) THEN rec[CHOOSE i \in 1..Len(rec) : rec[i][1] = key][2] ELSE <<>>

\* io_utils.py 31-40
PreferredFields ==
    <<"source_file", "manufacturer", "model_number", "serial_number", "capacity",
      "date_of_manufacture", "ocr_confidence", "rotation_deg">>

\* io_utils.py 44-47: the keys of one record not yet among the fields
RECURSIVE AddKeys(_, _)
AddKeys(fields, keys) ==
    IF keys = <<>> THEN fields
    ELSE AddKeys(IF Head(keys) \in Range(fields) THEN fields ELSE Append(fields, Head(keys)),
                 Tail(keys))

RECURSIVE AddRecords(_, _)
AddRecords(fields, records) ==
    IF records = <<>> THEN fields
    ELSE AddRecords(AddKeys(fields, DictKeys(Head(records))), Tail(records))

RECURSIVE AllKeysInOrder(_)
AllKeysInOrder(records) ==
    IF records = <<>> THEN <<>>
    ELSE DictKeys(Head(records)) \o AllKeysInOrder(Tail(records))

InferFieldnamesNoDedup(records) == PreferredFields \o AllKeysInOrder(records)

\* io_utils.py 29-48
infer_fieldnames(records) == AddRecords(PreferredFields, records)

\* io_utils.py 19-26: the header row, then one row per record (csv.DictWriter
\* writes "" for a field the record lacks)
write_csv_records(records) ==
    LET fieldnames == infer_fieldnames(records)
    IN [header |-> fieldnames,
        rows   |-> [i \in 1..Len(records) |->
                      [j \in 1..Len(fieldnames) |-> DictGet(records[i], fieldnames[j])]]]

\* io_utils.py 14-16
write_json_records(records) == records

\* Inputs of write_csv_records: up to MaxRecords dicts of up to MaxKeys keys
MaxRecords == 2
MaxKeys == 2
CsvKeys == {"source_file", "rotation_deg", "notes", "extra"}
CsvValue == <<"v">>

InjectiveSeqs(S, n) ==
    UNION {{q \in [1..k -> S] : \A i, j \in 1..k : i # j => q[i] # q[j]} : k \in 0..n}
CsvDicts == {[i \in 1..Len(ks) |-> <<ks[i], CsvValue>>] : ks \in InjectiveSeqs(CsvKeys, MaxKeys)}
CsvRecordLists == UNION {[1..n -> CsvDicts] : n \in 0..MaxRecords}

CsvInit ==
    /\ csv_pc = "call"
    /\ csv_records \in CsvRecordLists
    /\ csv_file = None

CsvIdle ==
    /\ csv_pc = "idle"
    /\ csv_records = <<>>
    /\ csv_file = None

\* io_utils.py 19-26
CsvWrite ==
    /\ csv_pc = "call"
    /\ csv_file' = Some(write_csv_records(csv_records))
    /\ csv_pc' = "written"
    /\ UNCHANGED csv_records
    /\ UNCHANGED <<selVars, exVars, pipeVars>>

-----------------------------------------------------------------------------
(* Image normaliser (heic_utils.py) and the pipeline (main.py run_pipeline) *)

\* pathlib: PurePath.suffix and PurePath.stem of a file name
LastDot(name) ==
    IF \E i \in 1..Len(name) : name[i] = "."
    THEN CHOOSE i \in 1..Len(name) :
            name[i] = "." /\ \A j \in (i + 1)..Len(name) : name[j] # "."
    ELSE 0
HasSuffix(name) == 1 < LastDot(name) /\ LastDot(name) < Len(name)
PathSuffix(name) == IF HasSuffix(name) THEN Slice(name, LastDot(name), Len(name)) ELSE <<>>
PathStem(name) == IF HasSuffix(name) THEN Slice(name, 1, LastDot(name) - 1) ELSE name

\* heic_utils.py 8
IMAGE_EXTENSIONS ==
    { <<".", "h", "e", "i", "c">>, <<".", "h", "e", "i", "f">>, <<".", "j", "p", "g">>, <<".", "j", "p", "e", "g">>,
      <<".", "p", "n", "g">>, <<".", "b", "m", "p">>, <<".", "t", "i", "f">>, <<".", "t", "i", "f", "f">> }
HeicExtensions == { <<".", "h", "e", "i", "c">>, <<".", "h", "e", "i", "f">> }
PngSuffix == <<".", "p", "n", "g">>

\* heic_utils.py 11-12
is_image_file(path) == Lower(PathSuffix(path.name)) \in IMAGE_EXTENSIONS

\* What OCR reads on an image at the rotations 0, 90, 180, 270: the text and
\* the mean confidence EasyOCR reports (NoConfidence when it finds no line)
T_model == <<"M", "o", "d", "e", "l", " ", "N", "o", ":", " ", "A", "B", "C", "-", "1", "2", "3">>
T_rheem == <<"R", "H", "E", "E", "M", " ", "5", "0", " ", "G", "a", "l", "l", "o", "n", "s">>
Nothing == [text |-> T_empty, conf |-> NoConfidence]
Read(text, conf) == [text |-> text, conf |-> conf]

\* The entries input_dir.rglob("*") may yield, in sorted(...) order.  An input
\* directory holds any MaxFiles of them.
Universe ==
    << [dir |-> <<>>, name |-> <<"a", ".", "h", "e", "i", "c">>, is_file |-> TRUE, decodable |-> TRUE,
        ocr |-> <<Read(T_ge, 2), Read(T_bosch, 9), Read(T_ge, 5), Read(T_ge, 1)>>],
       [dir |-> <<>>, name |-> <<"a", ".", "p", "n", "g">>, is_file |-> TRUE, decodable |-> TRUE,
        ocr |-> <<Read(T_model, 5), Nothing, Read(T_ge, 5), Nothing>>],
       [dir |-> <<>>, name |-> <<"b", ".", "H", "E", "I", "F">>, is_file |-> TRUE, decodable |-> TRUE,
        ocr |-> <<Nothing, Nothing, Nothing, Nothing>>],
       [dir |-> <<>>, name |-> <<"c", ".", "j", "p", "g">>, is_file |-> TRUE, decodable |-> FALSE,
        ocr |-> <<Nothing, Nothing, Nothing, Nothing>>],
       [dir |-> <<>>, name |-> <<"n", "o", "t", "e", "s", ".", "t", "x", "t">>, is_file |-> TRUE, decodable |-> FALSE,
        ocr |-> <<Nothing, Nothing, Nothing, Nothing>>],
       [dir |-> <<>>, name |-> <<"s", "u", "b">>, is_file |-> FALSE, decodable |-> FALSE,
        ocr |-> <<Nothing, Nothing, Nothing, Nothing>>],
       [dir |-> <<"s", "u", "b">>, name |-> <<"a", ".", "p", "n", "g">>, is_file |-> TRUE, decodable |-> TRUE,
        ocr |-> <<Nothing, Read(T_rheem, 9), Nothing, Read(T_rheem, 2)>>] >>

MaxFiles == 3
MaxRuns == 2

\* the sorted listing of a directory holding the entries S of the universe
RECURSIVE Listing(_, _)
Listing(S, k) ==
    IF k > Len(Universe) THEN <<>>
    ELSE (IF k \in S THEN <<k>> ELSE <<>>) \o Listing(S, k + 1)

\* a file of a subdirectory is there only with its directory
Directories ==
    {S \in SUBSET (1..Len(Universe)) :
        /\ Cardinality(S) <= MaxFiles
        /\ \A k \in S : Universe[k].dir # <<>> =>
              \E d \in S : ~Universe[d].is_file /\ Universe[d].name = Universe[k].dir}

\* heic_utils.py 44 and 54: the path under converted_dir an input file is staged at
StagedName(path) ==
    IF Lower(PathSuffix(path.name)) \in HeicExtensions
    THEN PathStem(path.name) \o PngSuffix
    ELSE path.name

OutExistsNever(name) == FALSE

\* heic_utils.py 45 and 55: out_png.exists(), out_copy.exists()
OutExists(name) == \E e \in converted : e.name = name

\* the input file whose image the staged file `name` holds
ContentOf(name) == (CHOOSE e \in converted : e.name = name).src

\* ocr.py 39-42, 63, 73: EasyOCR reports its mean confidence, Tesseract none
EngineRun(content, k) ==
    IF engine_type = "easyocr" THEN Universe[content].ocr[k]
    ELSE [text |-> Universe[content].ocr[k].text, conf |-> NoConfidence]

\* main.py 21-55 on the staged image `name`
choose_best_ocr_result(name, mode) ==
    LET cands == RotationCandidates(mode)
    IN FoldAttempts(InitialBest,
          [k \in 1..Len(cands) |->
              [rot |-> cands[k],
               text |-> EngineRun(ContentOf(name), (cands[k] \div 90) + 1).text,
               conf |-> EngineRun(ContentOf(name), (cands[k] \div 90) + 1).conf]])

\* str(n) of a natural number
RECURSIVE Str(_)
Str(n) == IF n < 10 THEN <<Digit(n)>> ELSE Str(n \div 10) \o <<Digit(n % 10)>>

\* f"{best_conf:.3f}" of a confidence in tenths
FormatConf(c) == <<Digit(c \div 10), ".", Digit(c % 10), "0", "0">>

\* str(img_path): the staged file under <output_dir>/converted
ConvertedDir == <<"o", "u", "t", "/", "c", "o", "n", "v", "e", "r", "t", "e", "d", "/">>
PathStr(name) == ConvertedDir \o name

\* the images of the model show no date, so dateutil's parser is never called
NoDateParser == <<>>

\* main.py 98-101: the record of one image, keys in insertion order
MakeRecord(name, best) ==
    LET fields == parse_fields(Some(best.text), NoDateParser)
    IN << <<"manufacturer", fields.manufacturer>>,
          <<"model_number", fields.model_number>>,
          <<"serial_number", fields.serial_number>>,
          <<"capacity", fields.capacity>>,
          <<"date_of_manufacture", fields.date_of_manufacture>>,
          <<"source_file", PathStr(name)>>,
          <<"ocr_confidence", IF best.conf >= 0 THEN FormatConf(best.conf) ELSE <<>>>>,
          <<"rotation_deg", Str(best.rot)>> >>

AppendRecordTwice(records, fields) == Append(Append(records, fields), fields)

\* main.py 102
AppendRecord(records, fields) == Append(records, fields)

PipeFrame == UNCHANGED <<selVars, exVars, csvVars>>

PipeInit ==
    /\ pc = "start"
    /\ run = 1
    /\ input_files \in {Listing(S, 1) : S \in Directories}
    /\ engine_type \in {"easyocr", "tesseract"}
    /\ engine_ok \in BOOLEAN
    /\ write_csv \in BOOLEAN
    /\ write_json \in BOOLEAN
    /\ rotation_mode \in {"auto", "none"}
    /\ converted = {}
    /\ ocr_raw = {}
    /\ csv_out = None
    /\ json_out = None
    /\ prep_i = 1
    /\ ready = <<>>
    /\ proc_i = 1
    /\ extracted_records = <<>>
    /\ ready_src = <<>>
    /\ convert_log = <<>>
    /\ copy_log = <<>>
    /\ fail_log = <<>>
    /\ ready_hist = <<>>

PipeIdle ==
    /\ pc = "idle"
    /\ run = 1
    /\ input_files = <<>>
    /\ engine_type = "easyocr"
    /\ engine_ok = TRUE
    /\ write_csv = FALSE
    /\ write_json = FALSE
    /\ converted = {}
    /\ ocr_raw = {}
    /\ csv_out = None
    /\ json_out = None
    /\ prep_i = 1
    /\ ready = <<>>
    /\ proc_i = 1
    /\ extracted_records = <<>>
    /\ ready_src = <<>>
    /\ convert_log = <<>>
    /\ copy_log = <<>>
    /\ fail_log = <<>>
    /\ ready_hist = <<>>

CurrentPath == Universe[input_files[prep_i]]
InLoop == pc = "prepare" /\ prep_i <= Len(input_files)
IsHeic(path) == Lower(PathSuffix(path.name)) \in HeicExtensions

\* main.py 68-78, heic_utils.py 34-37: the output directories are made and
\* prepare_images starts on the sorted listing
PipeStart ==
    /\ pc = "start"
    /\ pc' = "prepare"
    /\ prep_i' = 1
    /\ ready' = <<>>
    /\ ready_src' = <<>>
    /\ UNCHANGED <<run, input_files, engine_type, engine_ok, write_csv, write_json,
                   converted, ocr_raw, csv_out, json_out, proc_i, extracted_records,
                   convert_log, copy_log, fail_log, ready_hist>>
    /\ PipeFrame

PrepUnchanged ==
    /\ UNCHANGED <<pc, run, input_files, engine_type, engine_ok, write_csv, write_json,
                   ocr_raw, csv_out, json_out, proc_i, extracted_records, ready_hist>>
    /\ PipeFrame

\* heic_utils.py 39-40
PrepSkip ==
    /\ InLoop
    /\ ~CurrentPath.is_file \/ ~is_image_file(CurrentPath)
    /\ prep_i' = prep_i + 1
    /\ UNCHANGED <<ready, ready_src, converted, convert_log, copy_log, fail_log>>
    /\ PrepUnchanged

Stage ==
    /\ ready' = Append(ready, StagedName(CurrentPath))
    /\ ready_src' = Append(ready_src, input_files[prep_i])
    /\ prep_i' = prep_i + 1

\* heic_utils.py 43-45, 51: the converted file is there already
PrepHeicCached ==
    /\ InLoop
    /\ CurrentPath.is_file /\ is_image_file(CurrentPath) /\ IsHeic(CurrentPath)
    /\ OutExists(StagedName(CurrentPath))
    /\ Stage
    /\ UNCHANGED <<converted, convert_log, copy_log, fail_log>>
    /\ PrepUnchanged

\* heic_utils.py 45-47, 51: convert_heic_to_png writes the PNG
PrepHeicConvert ==
    /\ InLoop
    /\ CurrentPath.is_file /\ is_image_file(CurrentPath) /\ IsHeic(CurrentPath)
    /\ ~OutExists(StagedName(CurrentPath))
    /\ converted' = converted \cup
          {[name |-> StagedName(CurrentPath), src |-> input_files[prep_i]]}
    /\ convert_log' = Append(convert_log,
          [run |-> run, src |-> input_files[prep_i], ok |-> TRUE])
    /\ Stage
    /\ UNCHANGED <<copy_log, fail_log>>
    /\ PrepUnchanged

PrepHeicFailBreaks ==
    /\ InLoop
    /\ CurrentPath.is_file /\ is_image_file(CurrentPath) /\ IsHeic(CurrentPath)
    /\ ~OutExists(StagedName(CurrentPath))
    /\ convert_log' = Append(convert_log,
          [run |-> run, src |-> input_files[prep_i], ok |-> FALSE])
    /\ fail_log' = Append(fail_log, [run |-> run, src |-> input_files[prep_i]])
    /\ prep_i' = Len(input_files) + 1
    /\ UNCHANGED <<ready, ready_src, converted, copy_log>>
    /\ PrepUnchanged

\* heic_utils.py 45-50: convert_heic_to_png raises; the file is skipped
PrepHeicFail ==
    /\ InLoop
    /\ CurrentPath.is_file /\ is_image_file(CurrentPath) /\ IsHeic(CurrentPath)
    /\ ~OutExists(StagedName(CurrentPath))
    /\ convert_log' = Append(convert_log,
          [run |-> run, src |-> input_files[prep_i], ok |-> FALSE])
    /\ fail_log' = Append(fail_log, [run |-> run, src |-> input_files[prep_i]])
    /\ prep_i' = prep_i + 1
    /\ UNCHANGED <<ready, ready_src, converted, copy_log>>
    /\ PrepUnchanged

\* heic_utils.py 54-55, 62: the copy is there already
PrepCopyCached ==
    /\ InLoop
    /\ CurrentPath.is_file /\ is_image_file(CurrentPath) /\ ~IsHeic(CurrentPath)
    /\ OutExists(StagedName(CurrentPath))
    /\ Stage
    /\ UNCHANGED <<converted, convert_log, copy_log, fail_log>>
    /\ PrepUnchanged

\* heic_utils.py 55-58, 62: shutil.copy2 copies the file
PrepCopy ==
    /\ InLoop
    /\ CurrentPath.is_file /\ is_image_file(CurrentPath) /\ ~IsHeic(CurrentPath)
    /\ ~OutExists(StagedName(CurrentPath))
    /\ converted' = converted \cup
          {[name |-> StagedName(CurrentPath), src |-> input_files[prep_i]]}
    /\ copy_log' = Append(copy_log,
          [run |-> run, src |-> input_files[prep_i], ok |-> TRUE])
    /\ Stage
    /\ UNCHANGED <<convert_log, fail_log>>
    /\ PrepUnchanged

\* heic_utils.py 55-61: the copy raises; the file is skipped
PrepCopyFail ==
    /\ InLoop
    /\ CurrentPath.is_file /\ is_image_file(CurrentPath) /\ ~IsHeic(CurrentPath)
    /\ ~OutExists(StagedName(CurrentPath))
    /\ copy_log' = Append(copy_log,
          [run |-> run, src |-> input_files[prep_i], ok |-> FALSE])
    /\ fail_log' = Append(fail_log, [run |-> run, src |-> input_files[prep_i]])
    /\ prep_i' = prep_i + 1
    /\ UNCHANGED <<ready, ready_src, converted, convert_log>>
    /\ PrepUnchanged

\* heic_utils.py 64
PrepReturn ==
    /\ pc = "prepare"
    /\ prep_i > Len(input_files)
    /\ pc' = "prepared"
    /\ ready_hist' = Append(ready_hist, ready)
    /\ UNCHANGED <<run, input_files, engine_type, engine_ok, write_csv, write_json,
                   converted, ocr_raw, csv_out, json_out, prep_i, ready, proc_i,
                   extracted_records, ready_src, convert_log, copy_log, fail_log>>
    /\ PipeFrame

RunUnchanged ==
    /\ UNCHANGED <<run, input_files, engine_type, engine_ok, write_csv, write_json,
                   converted, prep_i, ready, ready_src, convert_log, copy_log,
                   fail_log, ready_hist>>
    /\ PipeFrame

\* main.py 79-81
PipeNoImages ==
    /\ pc = "prepared"
    /\ ready = <<>>
    /\ pc' = "no_images"
    /\ UNCHANGED <<ocr_raw, csv_out, json_out, proc_i, extracted_records>>
    /\ RunUnchanged

\* main.py 83-85: the engine's dependency is there
EngineInit ==
    /\ pc = "prepared"
    /\ ready # <<>>
    /\ engine_ok
    /\ pc' = "process"
    /\ proc_i' = 1
    /\ extracted_records' = <<>>
    /\ UNCHANGED <<ocr_raw, csv_out, json_out>>
    /\ RunUnchanged

\* main.py 83, ocr.py 22-37: OCREngine(...) raises RuntimeError
EngineInitFail ==
    /\ pc = "prepared"
    /\ ready # <<>>
    /\ ~engine_ok
    /\ pc' = "fatal"
    /\ UNCHANGED <<ocr_raw, csv_out, json_out, proc_i, extracted_records>>
    /\ RunUnchanged

\* main.py 87-102: one image is read, OCR'd, its raw text saved, its record added
ProcessImage ==
    /\ pc = "process"
    /\ proc_i <= Len(ready)
    /\ Universe[ContentOf(ready[proc_i])].decodable
    /\ LET best == choose_best_ocr_result(ready[proc_i], rotation_mode)
       IN /\ ocr_raw' = {e \in ocr_raw : e.stem # PathStem(ready[proc_i])} \cup
                          {[stem |-> PathStem(ready[proc_i]), text |-> best.text]}
          /\ extracted_records' =
                AppendRecord(extracted_records, MakeRecord(ready[proc_i], best))
    /\ proc_i' = proc_i + 1
    /\ UNCHANGED <<pc, csv_out, json_out>>
    /\ RunUnchanged

\* main.py 88, 41; preprocess.py 8-12: read_image_bgr raises and nothing in
\* run_pipeline catches it
ProcessImageRaise ==
    /\ pc = "process"
    /\ proc_i <= Len(ready)
    /\ ~Universe[ContentOf(ready[proc_i])].decodable
    /\ pc' = "aborted"
    /\ UNCHANGED <<ocr_raw, csv_out, json_out, proc_i, extracted_records>>
    /\ RunUnchanged

\* main.py 104-110
WriteOutputs ==
    /\ pc = "process"
    /\ proc_i > Len(ready)
    /\ csv_out' = IF write_csv THEN Some(write_csv_records(extracted_records)) ELSE csv_out
    /\ json_out' = IF write_json THEN Some(write_json_records(extracted_records)) ELSE json_out
    /\ pc' = "done"
    /\ UNCHANGED <<ocr_raw, proc_i, extracted_records>>
    /\ RunUnchanged

Ended == pc \in {"no_images", "fatal", "aborted", "done"}

\* main.py 150-177: the program is run again on the same directories
RunAgain ==
    /\ Ended
    /\ run < MaxRuns
    /\ run' = run + 1
    /\ pc' = "start"
    /\ prep_i' = 1
    /\ ready' = <<>>
    /\ ready_src' = <<>>
    /\ proc_i' = 1
    /\ extracted_records' = <<>>
    /\ UNCHANGED <<input_files, engine_type, engine_ok, write_csv, write_json,
                   converted, ocr_raw, csv_out, json_out,
                   convert_log, copy_log, fail_log, ready_hist>>
    /\ PipeFrame

PipeNext ==
    \/ PipeStart \/ PrepSkip
    \/ PrepHeicCached \/ PrepHeicConvert \/ PrepHeicFail
    \/ PrepCopyCached \/ PrepCopy \/ PrepCopyFail
    \/ PrepReturn \/ PipeNoImages \/ EngineInit \/ EngineInitFail
    \/ ProcessImage \/ ProcessImageRaise \/ WriteOutputs \/ RunAgain

-----------------------------------------------------------------------------
(* Specifications *)

SelParked ==
    /\ sel_pc = "idle"
    /\ rot_i = 1
    /\ attempts = <<>>
    /\ best_text = InitialBest.text
    /\ best_confidence = InitialBest.conf
    /\ best_rotation = InitialBest.rot

\* choose_best_ocr_result on one image, any engine results
InitSelect == SelInit /\ ExIdle /\ CsvIdle /\ PipeIdle
SpecSelect == InitSelect /\ [][SelNext]_vars

\* parse_fields on one text
InitExtract == ExInit /\ SelIdle /\ CsvIdle /\ PipeIdle
SpecExtract == InitExtract /\ [][ExNext]_vars

\* write_csv_records on one list of records
InitCsv == CsvInit /\ SelIdle /\ ExIdle /\ PipeIdle
CsvNext == CsvWrite
SpecCsv == InitCsv /\ [][CsvNext]_vars

\* run_pipeline, run up to MaxRuns times on one input directory
Init == PipeInit /\ SelParked /\ ExIdle /\ CsvIdle
Next == PipeNext
Spec == Init /\ [][Next]_vars

-----------------------------------------------------------------------------
(* Claims about choose_best_ocr_result *)

\* index of the earliest attempt whose confidence no other attempt exceeds
EarliestGreatest(atts) ==
    CHOOSE i \in 1..Len(atts) :
        /\ \A j \in 1..Len(atts) : atts[j].conf <= atts[i].conf
        /\ \A j \in 1..(i - 1) : atts[j].conf < atts[i].conf

AllUnavailable(atts) == \A i \in 1..Len(atts) : atts[i].conf = NoConfidence

\* C1: choose_best_ocr_result returns the text, confidence and rotation of the
\* attempt with the greatest confidence, the earliest-tried one on a tie.
C1_GreatestConfidenceWins ==
    (sel_pc = "returned" /\ attempts # <<>>) =>
        Best = attempts[EarliestGreatest(attempts)]

-----------------------------------------------------------------------------
(* Claims about parse_fields *)

FieldKeys == {"manufacturer", "model_number", "serial_number", "capacity",
              "date_of_manufacture"}

\* what post_clean trims: whitespace and the characters of "-:;,.# "
Trimmed == Whitespace \cup {"-", ":", ";", ",", ".", "#"}

CleanStart(v) == v = <<>> \/ v[1] \notin Trimmed
CleanEnd(v) == v = <<>> \/ v[Len(v)] \notin Trimmed

ExText == normalize_whitespace(IF ex_input = None THEN <<>> ELSE ex_input[1])

\* the fields whose heuristic finds nothing are empty
MissesAreEmpty(r) ==
    /\ detect_manufacturer(ExText) = None => r.manufacturer = <<>>
    /\ find_first_group(MODEL_HINTS, ExText) = None => r.model_number = <<>>
    /\ find_first_group(SERIAL_HINTS, ExText) = None => r.serial_number = <<>>
    /\ parse_capacity(ExText) = None => r.capacity = <<>>
    /\ parse_date_of_manufacture(ExText, ex_oracle) = None => r.date_of_manufacture = <<>>

\* C9: for a text that contains a keyword of MANUFACTURER_KEYWORDS in any
\* letter case, the manufacturer field is that keyword, each word title-cased.
C9_KeywordTitleCased ==
    ex_pc = "returned" =>
        \A i \in 1..Len(MANUFACTURER_KEYWORDS) :
            Contains(Lower(ExText), MANUFACTURER_KEYWORDS[i]) =>
                ex_result[1].manufacturer = TitleCase(MANUFACTURER_KEYWORDS[i])

-----------------------------------------------------------------------------
(* Claims about run_pipeline and prepare_images *)

\* the input files whose conversion or copy raised in run r
FailedIn(r) == {fail_log[i].src : i \in {j \in 1..Len(fail_log) : fail_log[j].run = r}}
ConvertedIn(r) == {i \in 1..Len(convert_log) : convert_log[i].run = r}
CopiedIn(r) == {i \in 1..Len(copy_log) : copy_log[i].run = r}

IsInputImage(k) == Universe[k].is_file /\ is_image_file(Universe[k])

\* C3: a failure on one staged image is caught and the image skipped; every
\* remaining image is processed and the outputs are written: the loop of
\* run_pipeline never ends a run early.
C3_FailureSkipsOneImage ==
    pc \in {"aborted", "done"} =>
        /\ pc = "done"
        /\ proc_i > Len(ready)
        /\ write_csv => csv_out # None
        /\ write_json => json_out # None

C6_FailedFileSkipped ==
    pc # "start" =>
        LET Kept(k) == IsInputImage(k) /\ k \notin FailedIn(run)
        IN /\ ready_src = SelectSeq(SubSeq(input_files, 1, prep_i - 1), Kept)
           /\ ready = [i \in 1..Len(ready_src) |-> StagedName(Universe[ready_src[i]])]
           /\ pc # "prepare" => prep_i = Len(input_files) + 1

\* prepare_images returned a file that comes after one that failed
C6_Witness ==
    /\ pc = "prepared"
    /\ ready_src # <<>>
    /\ \E k \in FailedIn(run) : k < ready_src[Len(ready_src)]

\* C7: when the construction of OCREngine fails, no image has been converted,
\* copied, preprocessed or OCR'd and no output has been written.
C7_EngineFailureComesFirst ==
    (pc = "fatal" /\ run = 1) =>
        /\ converted = {}
        /\ convert_log = <<>>
        /\ copy_log = <<>>
        /\ ocr_raw = {}
        /\ csv_out = None
        /\ json_out = None

\* what choose_best_ocr_result returns on the image of the input file src
BestOfInput(src, mode) ==
    LET cands == RotationCandidates(mode)
    IN FoldAttempts(InitialBest,
          [k \in 1..Len(cands) |->
              [rot |-> cands[k],
               text |-> EngineRun(src, (cands[k] \div 90) + 1).text,
               conf |-> EngineRun(src, (cands[k] \div 90) + 1).conf]])

\* C11: every path of the list prepare_images builds names a staged file that
\* holds the image of the input file the entry was made for; no two entries
\* of the list are the same staged path; and every record carries the fields
\* read from the input file that was traversed for it.
C11_StagedFileHoldsOwnInput ==
    /\ \A i \in 1..Len(ready) :
          /\ OutExists(ready[i])
          /\ ContentOf(ready[i]) = ready_src[i]
    /\ \A i, j \in 1..Len(ready) : i # j => ready[i] # ready[j]
    /\ \A i \in 1..Len(extracted_records) :
          extracted_records[i] =
             MakeRecord(ready[i], BestOfInput(ready_src[i], rotation_mode))

-----------------------------------------------------------------------------
(* Claims about write_csv_records *)

\* where a key first occurs, reading the records in order
FirstAppearance(key, records) ==
    CHOOSE i \in 1..Len(AllKeysInOrder(records)) :
        /\ AllKeysInOrder(records)[i] = key
        /\ \A j \in 1..(i - 1) : AllKeysInOrder(records)[j] # key

\* C8: the header is the eight preferred columns in order, then every other
\* key of any record once, in order of first appearance; one row per record.
C8_PreferredThenExtras ==
    csv_pc = "written" =>
        LET h == csv_file[1].header
            n == Len(PreferredFields)
        IN /\ SubSeq(h, 1, n) = PreferredFields
           /\ \A i, j \in 1..Len(h) : i # j => h[i] # h[j]
           /\ Range(h) = Range(PreferredFields) \cup Range(AllKeysInOrder(csv_records))
           /\ \A i, j \in (n + 1)..Len(h) :
                 i < j => FirstAppearance(h[i], csv_records) < FirstAppearance(h[j], csv_records)
           /\ Len(csv_file[1].rows) = Len(csv_records)
           /\ \A i \in 1..Len(csv_records) : Len(csv_file[1].rows[i]) = Len(h)

\* two records that repeat an extra key and carry a preferred one
C8_Witness ==
    /\ csv_pc = "written"
    /\ Len(csv_records) = 2
    /\ HasKey(csv_records[1], "notes") /\ HasKey(csv_records[2], "notes")
    /\ HasKey(csv_records[2], "extra") /\ HasKey(csv_records[1], "rotation_deg")
    /\ Len(csv_file[1].header) = Len(PreferredFields) + 2

=============================================================================
